---- MODULE Spec2Model ----
(***************************************************************************)
(* The two notebooks of src/chapter3.ipynb as state machines.              *)
(*                                                                         *)
(* Notebook 1, "Processing pipelines" (lines 1-231): a kernel in which the *)
(* code cells can be executed, and re-executed, in any order.  A cell runs *)
(* statement by statement; an uncaught exception ends the cell and leaves  *)
(* the kernel's bindings as they were at that point.                       *)
(*                                                                         *)
(* Notebook 2, "Training a neural network model" (lines 233-462): the same *)
(* for the load cell, the example training cell and the from-scratch cell. *)
(*                                                                         *)
(* The calls into the wrapped library (add_pipe, set_extension, nlp.pipe,  *)
(* minibatch, random.shuffle, nlp.update, ...) are modelled at their call  *)
(* sites by the behaviour the notebook's recorded outputs show and the     *)
(* library documents.  Python values are encoded as strings ("None",       *)
(* "True", "1", ...) so that values of different types can be compared.    *)
(***************************************************************************)
EXTENDS Integers, Sequences, FiniteSets, Bags, TLC

VARIABLES
  \* ---- notebook 1
  cell1,        \* the cell being executed, or "idle"
  pc1,          \* the next statement of that cell
  err1,         \* the exception that ended the last cell, or "none"
  bound1,       \* the global names the kernel has bound
  pipe_names,   \* nlp.pipe_names
  extensions,   \* the registrations made by set_extension: <<type, name, default>>
  user_data,    \* the instance-specific values: <<object, name, value>>
  doc,          \* the Doc made by nlp('Hello!') (its contents), or NoDoc
  docPipeline,  \* the pipeline that made doc
  data,         \* the list bound to `data`
  stream,       \* what nlp.pipe(data, as_tuples=True) yields, in order
  idx,          \* how many pairs of stream the for loop has consumed
  printed,      \* the lines printed by the last "Passing in context" cell
  \* ---- notebook 2
  cell2,        \* the cell executed last ("none" in a fresh kernel)
  run2,         \* whether that cell is still executing
  pc2,          \* the next statement of that cell
  err2,         \* the exception that ended that cell, or "none"
  bound2,       \* the global names the kernel has bound
  kind,         \* what nlp is: "none", "loaded" (spacy.load) or "blank"
  labels,       \* the labels of the entity recognizer in nlp's pipeline
  setup,        \* the library calls the from-scratch cell has made before its loop
  TRAINING_DATA,
  itn,          \* the loop variable of for ... in range(10)
  batches,      \* the mini-batches of the current iteration
  bi,           \* how many of them the inner loop has consumed
  batch,        \* the batch of the last nlp.update call of this execution
  texts,        \* its first argument
  annotations,  \* its second argument
  shuffles,     \* random.shuffle calls of this execution
  updates,      \* nlp.update calls of this execution that returned
  saved         \* nlp.to_disk calls of this execution

vars1 == <<cell1, pc1, err1, bound1, pipe_names, extensions, user_data, doc,
           docPipeline, data, stream, idx, printed>>

vars2 == <<cell2, run2, pc2, err2, bound2, kind, labels, setup, TRAINING_DATA,
           itn, batches, bi, batch, texts, annotations, shuffles, updates, saved>>

vars == <<vars1, vars2>>

\* ------------------------------------------------------------------ bounds

\* the longest list bound to `data`
MaxData == 2

\* how many examples TRAINING_DATA holds beyond the one the notebook spells
\* out ("And many more examples...")
MaxMore == 2

\* ------------------------------------------------------------- notebook 1

BuiltinPipeline == <<"tagger", "parser", "ner">>

NoDoc == [text |-> "", is_tagged |-> FALSE, is_parsed |-> FALSE, ents |-> FALSE,
          made |-> FALSE]

\* the tokenizer: a Doc with the text and nothing else set
MakeDoc(text) == [text |-> text, is_tagged |-> FALSE, is_parsed |-> FALSE,
                  ents |-> FALSE, made |-> TRUE]

\* variant: a component that clears the entities of the Doc it is given
custom_component_touching(d) == [d EXCEPT !.ents = FALSE]

\* def custom_component(doc): return doc
custom_component(d) == d

\* one pipeline component applied to a Doc
Component(name, d) ==
  CASE name = "tagger" -> [d EXCEPT !.is_tagged = TRUE]
    [] name = "parser" -> [d EXCEPT !.is_parsed = TRUE]
    [] name = "ner" -> [d EXCEPT !.ents = TRUE]
    [] name = "custom_component" -> custom_component(d)
    [] OTHER -> d

RECURSIVE ApplyPipeline(_, _)
ApplyPipeline(names, d) ==
  IF names = <<>> THEN d
  ELSE ApplyPipeline(Tail(names), Component(Head(names), d))

\* nlp(text): the tokenizer, then every component of the pipeline in order
Nlp(names, text) == ApplyPipeline(names, MakeDoc(text))

\* variant: nlp.add_pipe(component, first=True)
add_pipe_first(names, name) == <<name>> \o names

\* nlp.add_pipe(component): the default position is last
add_pipe(names, name) == Append(names, name)

\* if 'custom_component' not in nlp.pipe_names: nlp.add_pipe(custom_component)
GuardedAdd(names) ==
  IF \E k \in 1..Len(names) : names[k] = "custom_component"
  THEN names
  ELSE add_pipe(names, "custom_component")

\* ---- extension attributes

Registered(exts, type, name) == \E e \in exts : e[1] = type /\ e[2] = name

\* variant: force=False, the default of set_extension
ForceOff == FALSE

\* the force argument every set_extension call of the notebook passes
Force == TRUE

\* Type.set_extension(name, default=default, force=force): a registered name
\* is refused without force and replaced with it
SetExtensionFails(exts, type, name, force) == Registered(exts, type, name) /\ ~force

SetExtension(exts, type, name, default) ==
  {e \in exts : ~(e[1] = type /\ e[2] = name)} \cup {<<type, name, default>>}

\* the objects that carry extension values
Obj(type, d, start, end) == [type |-> type, doc |-> d, start |-> start, end |-> end]
HelloDoc == Obj("Doc", 0, -1, -1)
HelloToken == Obj("Token", 0, 0, -1)
HelloSpan == Obj("Span", 0, 0, 1)
PipeDoc(k) == Obj("Doc", k, -1, -1)

Assigned(ud, obj, name) == \E u \in ud : u[1] = obj /\ u[2] = name

Default(exts, type, name) ==
  (CHOOSE e \in exts : e[1] = type /\ e[2] = name)[3]

\* obj._.name
Read(exts, ud, obj, name) ==
  IF Assigned(ud, obj, name)
  THEN (CHOOSE u \in ud : u[1] = obj /\ u[2] = name)[3]
  ELSE Default(exts, obj.type, name)

\* variant: an assignment that is shared by every object
AssignAll(ud, obj, name, value) ==
  {u \in ud : u[2] # name} \cup {<<obj, name, value>>}

\* obj._.name = value
Assign(ud, obj, name, value) ==
  {u \in ud : ~(u[1] = obj /\ u[2] = name)} \cup {<<obj, name, value>>}

\* ---- nlp.pipe

Context(id, page) == [id |-> id, page_number |-> page]

\* the tuples `data` is made of: the two of the notebook, and the first text
\* with the second context
DataTuples ==
  { <<"This is a text", Context("1", "15")>>,
    <<"And another text", Context("2", "16")>>,
    <<"This is a text", Context("2", "16")>> }

DataLists == UNION { [1..n -> DataTuples] : n \in 0..MaxData }

\* variant: a pipe that pairs each doc with the next tuple's context
PipeAsTuplesShifted(names, items) ==
  [k \in 1..Len(items) |->
     <<Nlp(names, items[k][1]), items[(k % Len(items)) + 1][2]>>]

\* nlp.pipe(items, as_tuples=True): one (doc, context) pair per tuple
PipeAsTuples(names, items) ==
  [k \in 1..Len(items) |-> <<Nlp(names, items[k][1]), items[k][2]>>]

Init1 ==
  /\ cell1 = "idle"
  /\ pc1 = 0
  /\ err1 = "none"
  /\ bound1 = {}
  /\ pipe_names = <<>>
  /\ extensions = {}
  /\ user_data = {}
  /\ doc = NoDoc
  /\ docPipeline = <<>>
  /\ data = <<>>
  /\ stream = <<>>
  /\ idx = 0
  /\ printed = <<>>

\* a cell is started from the idle kernel; its first statement is next
Start1(c) ==
  /\ cell1 = "idle"
  /\ cell1' = c
  /\ pc1' = 0
  /\ err1' = "none"

\* an uncaught exception ends the cell
Raise1(e) ==
  /\ cell1' = "idle"
  /\ pc1' = 0
  /\ err1' = e

Goto1(n) == /\ pc1' = n /\ UNCHANGED <<cell1, err1>>

Finish1 == /\ cell1' = "idle" /\ pc1' = 0 /\ UNCHANGED err1

At1(c, n) == cell1 = c /\ pc1 = n

\* import os, spacy; nlp = spacy.load(model_path)
LoadCell ==
  /\ cell1 = "idle"
  /\ err1' = "none"
  /\ bound1' = bound1 \cup {"nlp"}
  /\ pipe_names' = BuiltinPipeline
  /\ UNCHANGED <<cell1, pc1, extensions, user_data, doc, docPipeline, data,
                 stream, idx, printed>>
  /\ UNCHANGED vars2

\* def custom_component ...; if 'custom_component' not in nlp.pipe_names: ...
ComponentCell ==
  /\ cell1 = "idle"
  /\ bound1' = bound1 \cup {"custom_component"}
  /\ IF "nlp" \in bound1
     THEN /\ pipe_names' = GuardedAdd(pipe_names)
          /\ err1' = "none"
     ELSE /\ err1' = "NameError"
          /\ UNCHANGED pipe_names
  /\ UNCHANGED <<cell1, pc1, extensions, user_data, doc, docPipeline, data,
                 stream, idx, printed>>
  /\ UNCHANGED vars2

\* the idle kernel is asked to run one of the cells that take several steps
StartCell1 ==
  /\ \E c \in {"extensions", "context", "docext"} : Start1(c)
  /\ UNCHANGED <<bound1, pipe_names, extensions, user_data, doc, docPipeline,
                 data, stream, idx, printed>>
  /\ UNCHANGED vars2

\* from spacy.tokens import Doc, Token, Span
ImportTokens ==
  /\ At1("extensions", 0)
  /\ bound1' = bound1 \cup {"Doc"}
  /\ Goto1(1)
  /\ UNCHANGED <<pipe_names, extensions, user_data, doc, docPipeline, data,
                 stream, idx, printed>>
  /\ UNCHANGED vars2

\* Type.set_extension(name, default=default, force=True), statement n of cell c
Register(c, n, type, name, default) ==
  /\ At1(c, n)
  /\ IF "Doc" \notin bound1
     THEN /\ Raise1("NameError")
          /\ UNCHANGED extensions
     ELSE IF SetExtensionFails(extensions, type, name, Force)
     THEN /\ Raise1("ValueError")
          /\ UNCHANGED extensions
     ELSE /\ extensions' = SetExtension(extensions, type, name, default)
          /\ Goto1(n + 1)
  /\ UNCHANGED <<bound1, pipe_names, user_data, doc, docPipeline, data, stream,
                 idx, printed>>
  /\ UNCHANGED vars2

RegisterTitle == Register("extensions", 1, "Doc", "title", "None")
RegisterIsColor == Register("extensions", 2, "Token", "is_color", "False")
RegisterHasColor == Register("extensions", 3, "Span", "has_color", "False")
RegisterId == Register("docext", 0, "Doc", "id", "None")
RegisterPageNumber == Register("docext", 1, "Doc", "page_number", "None")

\* doc = nlp('Hello!'); token = doc[0]; span = doc[0:1]: a new Doc, on which
\* nothing has been assigned
MakeHello ==
  /\ At1("extensions", 4)
  /\ IF "nlp" \in bound1
     THEN /\ doc' = Nlp(pipe_names, "Hello!")
          /\ docPipeline' = pipe_names
          /\ user_data' = {u \in user_data : u[1].doc # 0}
          /\ Goto1(5)
     ELSE /\ Raise1("NameError")
          /\ UNCHANGED <<doc, docPipeline, user_data>>
  /\ UNCHANGED <<bound1, pipe_names, extensions, data, stream, idx, printed>>
  /\ UNCHANGED vars2

\* obj._.name = value, statement n of the extensions cell; an unregistered
\* name is refused
AssignHello(n, obj, name, value) ==
  /\ At1("extensions", n)
  /\ IF Registered(extensions, obj.type, name)
     THEN /\ user_data' = Assign(user_data, obj, name, value)
          /\ IF n = 7 THEN Finish1 ELSE Goto1(n + 1)
     ELSE /\ Raise1("AttributeError")
          /\ UNCHANGED user_data
  /\ UNCHANGED <<bound1, pipe_names, extensions, doc, docPipeline, data, stream,
                 idx, printed>>
  /\ UNCHANGED vars2

AssignTitle == AssignHello(5, HelloDoc, "title", "My document")
AssignIsColor == AssignHello(6, HelloToken, "is_color", "True")
AssignHasColor == AssignHello(7, HelloSpan, "has_color", "False")

\* data = [(text, context), ...]
BindData ==
  /\ At1("context", 0) \/ At1("docext", 2)
  /\ \E d \in DataLists : data' = d
  /\ Goto1(pc1 + 1)
  /\ UNCHANGED <<bound1, pipe_names, extensions, user_data, doc, docPipeline,
                 stream, idx, printed>>
  /\ UNCHANGED vars2

\* for doc, context in nlp.pipe(data, as_tuples=True): the call; the docs it
\* makes are new ones
CallPipe ==
  /\ At1("context", 1) \/ At1("docext", 3)
  /\ IF "nlp" \in bound1
     THEN /\ stream' = PipeAsTuples(pipe_names, data)
          /\ idx' = 0
          /\ user_data' = {u \in user_data : u[1].doc = 0}
          /\ printed' = IF cell1 = "context" THEN <<>> ELSE printed
          /\ Goto1(pc1 + 1)
     ELSE /\ Raise1("NameError")
          /\ UNCHANGED <<stream, idx, user_data, printed>>
  /\ UNCHANGED <<bound1, pipe_names, extensions, doc, docPipeline, data>>
  /\ UNCHANGED vars2

\* the for loop is exhausted: the generator is dropped and the cell ends
EndLoop1 ==
  /\ At1("context", 2) \/ At1("docext", 4)
  /\ idx = Len(stream)
  /\ stream' = <<>>
  /\ idx' = 0
  /\ Finish1
  /\ UNCHANGED <<bound1, pipe_names, extensions, user_data, doc, docPipeline,
                 data, printed>>
  /\ UNCHANGED vars2

\* what print(doc.text, context['page_number']) shows for the k-th pair
PrintedLine(s, k) == <<s[k][1].text, s[k][2].page_number>>

\* print(doc.text, context['page_number'])
PrintContext ==
  /\ At1("context", 2)
  /\ idx < Len(stream)
  /\ printed' = Append(printed, PrintedLine(stream, idx + 1))
  /\ idx' = idx + 1
  /\ Goto1(2)
  /\ UNCHANGED <<bound1, pipe_names, extensions, user_data, doc, docPipeline,
                 data, stream>>
  /\ UNCHANGED vars2

\* doc._.id = context['id']
AssignId ==
  /\ At1("docext", 4)
  /\ idx < Len(stream)
  /\ user_data' = Assign(user_data, PipeDoc(idx + 1), "id", stream[idx + 1][2].id)
  /\ Goto1(5)
  /\ UNCHANGED <<bound1, pipe_names, extensions, doc, docPipeline, data, stream,
                 idx, printed>>
  /\ UNCHANGED vars2

\* doc._.page_number = context['page_number']
AssignPageNumber ==
  /\ At1("docext", 5)
  /\ user_data' = Assign(user_data, PipeDoc(idx + 1), "page_number",
                         stream[idx + 1][2].page_number)
  /\ idx' = idx + 1
  /\ Goto1(4)
  /\ UNCHANGED <<bound1, pipe_names, extensions, doc, docPipeline, data, stream,
                 printed>>
  /\ UNCHANGED vars2

Next1 ==
  \/ LoadCell
  \/ ComponentCell
  \/ StartCell1
  \/ ImportTokens
  \/ RegisterTitle
  \/ RegisterIsColor
  \/ RegisterHasColor
  \/ RegisterId
  \/ RegisterPageNumber
  \/ MakeHello
  \/ AssignTitle
  \/ AssignIsColor
  \/ AssignHasColor
  \/ BindData
  \/ CallPipe
  \/ EndLoop1
  \/ PrintContext
  \/ AssignId
  \/ AssignPageNumber


\* ------------------------------------------------- claims about notebook 1

InLoop1 == At1("context", 2) \/ At1("docext", 4) \/ At1("docext", 5)

\* C4: while the for loop over nlp.pipe(data, as_tuples=True) runs, it has
\* been handed one (doc, context) pair per tuple of data, in the order of
\* data, the doc's text being the tuple's text and the context the tuple's
\* own context: the lines printed so far, and the id and page_number assigned
\* so far, are those of the tuples consumed so far.
C4_PipeKeepsContexts ==
  /\ InLoop1 =>
       /\ Len(stream) = Len(data)
       /\ \A k \in 1..Len(data) :
            /\ stream[k][1].text = data[k][1]
            /\ stream[k][2] = data[k][2]
  /\ At1("context", 2) =>
       printed = [k \in 1..idx |-> <<data[k][1], data[k][2].page_number>>]
  /\ (At1("docext", 4) \/ At1("docext", 5)) =>
       \A k \in 1..idx :
         /\ Read(extensions, user_data, PipeDoc(k), "id") = data[k][2].id
         /\ Read(extensions, user_data, PipeDoc(k), "page_number")
              = data[k][2].page_number

\* a loop has consumed two tuples that have the same text and different contexts
C4_Witness ==
  /\ InLoop1
  /\ idx = 2
  /\ data[1][1] = data[2][1]
  /\ data[1][2] # data[2][2]

\* the objects of the notebook that carry extension attributes
Objects == {HelloDoc, HelloToken, HelloSpan} \cup {PipeDoc(k) : k \in 1..MaxData + 1}

\* the registrations the notebook declares
Declared ==
  { <<"Doc", "title", "None">>, <<"Token", "is_color", "False">>,
    <<"Span", "has_color", "False">>, <<"Doc", "id", "None">>,
    <<"Doc", "page_number", "None">> }

ReadNow(obj, name) == Read(extensions, user_data, obj, name)
ReadNext(obj, name) == Read(extensions', user_data', obj, name)

\* the step assigns value to obj._.name: afterwards obj reads value, every
\* other attribute of every object reads what it read before, and the
\* registrations are unchanged
AssignsOnly(obj, name, value) ==
  /\ ReadNext(obj, name) = value
  /\ extensions' = extensions
  /\ \A e \in extensions : \A o \in Objects :
       (o.type = e[1] /\ ~(o = obj /\ e[2] = name))
         => ReadNext(o, e[2]) = ReadNow(o, e[2])

C5_Defaults ==
  /\ \A e \in extensions : \A o \in Objects :
       (o.type = e[1] /\ ~Assigned(user_data, o, e[2]))
         => \E d \in Declared : d[1] = e[1] /\ d[2] = e[2] /\ ReadNow(o, e[2]) = d[3]
  /\ \A u \in user_data : Registered(extensions, u[1].type, u[2])

C5_Assignments ==
  /\ (AssignTitle /\ cell1' = "extensions")
       => AssignsOnly(HelloDoc, "title", "My document")
  /\ (AssignIsColor /\ cell1' = "extensions")
       => AssignsOnly(HelloToken, "is_color", "True")
  /\ (AssignHasColor /\ err1' = "none")
       => AssignsOnly(HelloSpan, "has_color", "False")
  /\ AssignId => AssignsOnly(PipeDoc(idx + 1), "id", data[idx + 1][2].id)
  /\ AssignPageNumber
       => AssignsOnly(PipeDoc(idx + 1), "page_number", data[idx + 1][2].page_number)

\* C5: an object on which a registered attribute has not been assigned reads
\* the declared default; an instance assignment makes that object read the
\* assigned value and changes neither what any other object reads nor the
\* registrations; every assigned attribute was registered before.
C5_ExtensionValues == []C5_Defaults /\ [][C5_Assignments]_vars1

\* two Docs carry different ids while the Hello Doc, which was assigned a
\* title, still reads the default id
C5_Witness ==
  /\ Assigned(user_data, HelloDoc, "title")
  /\ Registered(extensions, "Doc", "id")
  /\ ~Assigned(user_data, HelloDoc, "id")
  /\ Assigned(user_data, PipeDoc(1), "id")
  /\ Assigned(user_data, PipeDoc(2), "id")
  /\ ReadNow(PipeDoc(1), "id") # ReadNow(PipeDoc(2), "id")
  /\ ReadNow(HelloToken, "is_color") = "True"

WithoutCustom(names) == SelectSeq(names, LAMBDA n : n # "custom_component")

\* C6: custom_component hands back the Doc it was given, unchanged: a Doc
\* made by a pipeline that holds custom_component has the contents the same
\* pipeline without custom_component gives it.
C6_ComponentIsNoOp ==
  /\ doc.made =>
       /\ custom_component(doc) = doc
       /\ doc = Nlp(WithoutCustom(docPipeline), "Hello!")
  /\ InLoop1 =>
       \A k \in 1..Len(stream) :
         stream[k][1] = Nlp(WithoutCustom(pipe_names), data[k][1])

\* nlp('Hello!') ran with custom_component in the pipeline
C6_Witness ==
  /\ doc.made
  /\ \E k \in 1..Len(docPipeline) : docPipeline[k] = "custom_component"

Count(names, n) == Cardinality({k \in 1..Len(names) : names[k] = n})

C7_Step ==
  (ComponentCell /\ "nlp" \in bound1) =>
    /\ Count(pipe_names', "custom_component") = 1
    /\ pipe_names'[Len(pipe_names')] = "custom_component"
    /\ WithoutCustom(pipe_names') = WithoutCustom(pipe_names)
    /\ WithoutCustom(pipe_names') = BuiltinPipeline
    /\ Count(pipe_names, "custom_component") = 1 => pipe_names' = pipe_names

\* C7: every execution of the guarded insertion cell against the loaded
\* pipeline leaves custom_component exactly once in nlp.pipe_names, in the
\* last position, with tagger, parser, ner before it in their order; an
\* execution that finds custom_component present changes nothing.
C7_GuardedInsertIdempotent == [][C7_Step]_vars1

\* the cell has run against the loaded pipeline
C7_Witness ==
  /\ cell1 = "idle"
  /\ err1 = "none"
  /\ "custom_component" \in bound1
  /\ pipe_names = <<"tagger", "parser", "ner", "custom_component">>

\* C10: no set_extension call fails, whatever was registered before; a name
\* is never registered twice or with another default than the declared one;
\* once a registration cell is past its set_extension calls its names are
\* registered.
C10_ReRegistrationSafe ==
  /\ err1 # "ValueError"
  /\ extensions \subseteq Declared
  /\ \A e \in Declared :
       Cardinality({x \in extensions : x[1] = e[1] /\ x[2] = e[2]}) <= 1
  /\ (cell1 = "extensions" /\ pc1 >= 4) =>
       {e \in Declared : e[1] # "Doc" \/ e[2] = "title"} \subseteq extensions
  /\ (cell1 = "docext" /\ pc1 >= 2) =>
       {e \in Declared : e[2] \in {"id", "page_number"}} \subseteq extensions

\* the extensions cell is executed again: title has just been registered
\* once more, and is_color, registered by an earlier execution, is next
C10_Witness ==
  /\ At1("extensions", 2)
  /\ Declared \subseteq extensions

\* ------------------------------------------------------------- notebook 2

Init2 ==
  /\ cell2 = "none"
  /\ run2 = FALSE
  /\ pc2 = 0
  /\ err2 = "none"
  /\ bound2 = {}
  /\ kind = "none"
  /\ labels = {}
  /\ setup = <<>>
  /\ TRAINING_DATA = <<>>
  /\ itn = 0
  /\ batches = <<>>
  /\ bi = 0
  /\ batch = <<>>
  /\ texts = <<>>
  /\ annotations = <<>>
  /\ shuffles = 0
  /\ updates = 0
  /\ saved = 0

\* ---- training examples: (text, {'entities': [(start, end, label), ...]})

Example(text, entities) == <<text, entities>>

\* the three examples the notebook shows
Examples ==
  { Example("How to preorder the iPhone X", << <<20, 28, "GADGET">> >>),
    Example("iPhone X is coming", << <<0, 8, "GADGET">> >>),
    Example("I need a new phone! Any tips?", <<>>) }

\* TRAINING_DATA = [("How to preorder the iPhone X", ...)  # And many more examples... ]
TrainingLists ==
  { <<Example("How to preorder the iPhone X", << <<20, 28, "GADGET">> >>)>> \o more :
      more \in UNION { [1..n -> Examples] : n \in 0..MaxMore } }

\* the entity labels of the loaded en_core_web_md model's recognizer, among
\* which GADGET is not
LoadedLabels == {"PERSON", "ORG", "GPE"}

\* variant: a label other than the one the training data uses
NewLabelMisspelt == "GADGETS"

\* ner.add_label('GADGET')
NewLabel == "GADGET"

\* for ... in range(10)
Iterations == 10

\* spacy.util.minibatch(TRAINING_DATA): the size when none is passed
DefaultBatchSize == 8

\* spacy.util.minibatch(TRAINING_DATA, size=2)
ScratchBatchSize == 2

BatchSize(c) == IF c = "example" THEN DefaultBatchSize ELSE ScratchBatchSize

\* variant: a loop bound that is off by one
RangeHasOneMore(i) == i <= Iterations

\* whether range(10) yields a value for the loop variable after i values
RangeHas(i) == i < Iterations

Min(a, b) == IF a < b THEN a ELSE b

\* spacy.util.minibatch(items, size): successive slices of size items, the
\* last one shorter when the items run out, none empty
RECURSIVE Minibatch(_, _)
Minibatch(items, size) ==
  IF Len(items) = 0 THEN <<>>
  ELSE <<SubSeq(items, 1, Min(size, Len(items)))>>
         \o Minibatch(SubSeq(items, Min(size, Len(items)) + 1, Len(items)), size)

\* the permutations of 1..n, as functions
Perms(n) == {f \in [1..n -> 1..n] : \A i, j \in 1..n : f[i] = f[j] => i = j}

\* random.shuffle(items): the orders it may leave the list in
Shuffles(items) ==
  {[k \in 1..Len(items) |-> items[f[k]]] : f \in Perms(Len(items))}

\* variant: the texts of a batch in reverse order
TextsReversed(b) == [k \in 1..Len(b) |-> b[Len(b) + 1 - k][1]]

\* texts = [text for text, annotation in batch]
Texts(b) == [k \in 1..Len(b) |-> b[k][1]]

\* annotations = [annotation for text, annotation in batch]
Annotations(b) == [k \in 1..Len(b) |-> b[k][2]]

\* variant: an update that accepts any label
UpdateNeverFails(annots, registered) == FALSE

\* nlp.update(texts, annotations) raises KeyError [E022] when an annotation
\* names an entity label the recognizer has no transition for
UpdateFails(annots, registered) ==
  \E k \in 1..Len(annots) : \E e \in 1..Len(annots[k]) :
    annots[k][e][3] \notin registered

\* the statement of cell c at which its training loop starts
LoopStart(c) == IF c = "example" THEN 2 ELSE 5

At2(c, n) == run2 /\ cell2 = c /\ pc2 = n

AtLoop(n) == \E c \in {"example", "scratch"} : At2(c, LoopStart(c) + n)

Goto2(n) == /\ pc2' = n /\ UNCHANGED <<cell2, run2, err2>>

\* an uncaught exception ends the cell
Raise2(e) == /\ run2' = FALSE /\ err2' = e /\ UNCHANGED <<cell2, pc2>>

Finish2 == /\ run2' = FALSE /\ UNCHANGED <<cell2, pc2, err2>>

\* import os, spacy; nlp = spacy.load(model_path)
LoadCell2 ==
  /\ ~run2
  /\ cell2' = "load"
  /\ err2' = "none"
  /\ pc2' = 0
  /\ bound2' = bound2 \cup {"spacy", "nlp"}
  /\ kind' = "loaded"
  /\ labels' = LoadedLabels
  /\ UNCHANGED <<run2, setup, TRAINING_DATA, itn, batches, bi, batch, texts,
                 annotations, shuffles, updates, saved>>
  /\ UNCHANGED vars1

\* the idle kernel is asked to run the example cell or the from-scratch cell
StartCell2 ==
  /\ ~run2
  /\ \E c \in {"example", "scratch"} : cell2' = c
  /\ run2' = TRUE
  /\ pc2' = 0
  /\ err2' = "none"
  /\ setup' = <<>>
  /\ itn' = 0
  /\ batches' = <<>>
  /\ bi' = 0
  /\ shuffles' = 0
  /\ updates' = 0
  /\ saved' = 0
  /\ UNCHANGED <<bound2, kind, labels, TRAINING_DATA, batch, texts, annotations>>
  /\ UNCHANGED vars1

\* import random
ImportRandom ==
  /\ At2("example", 0)
  /\ bound2' = bound2 \cup {"random"}
  /\ Goto2(1)
  /\ UNCHANGED <<kind, labels, setup, TRAINING_DATA, itn, batches, bi, batch,
                 texts, annotations, shuffles, updates, saved>>
  /\ UNCHANGED vars1

\* TRAINING_DATA = [...]
BindTrainingData ==
  /\ At2("example", 1)
  /\ \E d \in TrainingLists : TRAINING_DATA' = d
  /\ bound2' = bound2 \cup {"TRAINING_DATA"}
  /\ Goto2(2)
  /\ UNCHANGED <<kind, labels, setup, itn, batches, bi, batch, texts,
                 annotations, shuffles, updates, saved>>
  /\ UNCHANGED vars1

\* nlp = spacy.blank('en')
BlankModel ==
  /\ At2("scratch", 0)
  /\ IF "spacy" \in bound2
     THEN /\ kind' = "blank"
          /\ labels' = {}
          /\ bound2' = bound2 \cup {"nlp"}
          /\ setup' = Append(setup, "blank")
          /\ Goto2(1)
     ELSE /\ Raise2("NameError")
          /\ UNCHANGED <<kind, labels, bound2, setup>>
  /\ UNCHANGED <<TRAINING_DATA, itn, batches, bi, batch, texts, annotations,
                 shuffles, updates, saved>>
  /\ UNCHANGED vars1

\* ner = nlp.create_pipe('ner')
CreatePipe ==
  /\ At2("scratch", 1)
  /\ bound2' = bound2 \cup {"ner"}
  /\ setup' = Append(setup, "create_pipe")
  /\ Goto2(2)
  /\ UNCHANGED <<kind, labels, TRAINING_DATA, itn, batches, bi, batch, texts,
                 annotations, shuffles, updates, saved>>
  /\ UNCHANGED vars1

\* nlp.add_pipe(ner): the new recognizer has no labels yet
AddNer ==
  /\ At2("scratch", 2)
  /\ labels' = {}
  /\ setup' = Append(setup, "add_pipe")
  /\ Goto2(3)
  /\ UNCHANGED <<bound2, kind, TRAINING_DATA, itn, batches, bi, batch, texts,
                 annotations, shuffles, updates, saved>>
  /\ UNCHANGED vars1

\* ner.add_label('GADGET')
AddLabel ==
  /\ At2("scratch", 3)
  /\ labels' = labels \cup {NewLabel}
  /\ setup' = Append(setup, "add_label")
  /\ Goto2(4)
  /\ UNCHANGED <<bound2, kind, TRAINING_DATA, itn, batches, bi, batch, texts,
                 annotations, shuffles, updates, saved>>
  /\ UNCHANGED vars1

\* nlp.begin_training()
BeginTraining ==
  /\ At2("scratch", 4)
  /\ setup' = Append(setup, "begin_training")
  /\ Goto2(5)
  /\ UNCHANGED <<bound2, kind, labels, TRAINING_DATA, itn, batches, bi, batch,
                 texts, annotations, shuffles, updates, saved>>
  /\ UNCHANGED vars1

\* for i in range(10): the next iteration, or the statement after the loop
\* (the example cell's nlp.to_disk; the end of the from-scratch cell)
LoopHeader ==
  /\ AtLoop(0)
  /\ IF RangeHas(itn)
     THEN Goto2(pc2 + 1)
     ELSE IF cell2 = "example" THEN Goto2(pc2 + 4) ELSE Finish2
  /\ UNCHANGED <<bound2, kind, labels, setup, TRAINING_DATA, itn, batches, bi,
                 batch, texts, annotations, shuffles, updates, saved>>
  /\ UNCHANGED vars1

\* random.shuffle(TRAINING_DATA)
Shuffle ==
  /\ AtLoop(1)
  /\ IF {"random", "TRAINING_DATA"} \subseteq bound2
     THEN /\ \E d \in Shuffles(TRAINING_DATA) : TRAINING_DATA' = d
          /\ shuffles' = shuffles + 1
          /\ Goto2(pc2 + 1)
     ELSE /\ Raise2("NameError")
          /\ UNCHANGED <<TRAINING_DATA, shuffles>>
  /\ UNCHANGED <<bound2, kind, labels, setup, itn, batches, bi, batch, texts,
                 annotations, updates, saved>>
  /\ UNCHANGED vars1

\* for batch in spacy.util.minibatch(TRAINING_DATA[, size=2]): the call
CallMinibatch ==
  /\ AtLoop(2)
  /\ IF "spacy" \in bound2
     THEN /\ batches' = Minibatch(TRAINING_DATA, BatchSize(cell2))
          /\ bi' = 0
          /\ Goto2(pc2 + 1)
     ELSE /\ Raise2("NameError")
          /\ UNCHANGED <<batches, bi>>
  /\ UNCHANGED <<bound2, kind, labels, setup, TRAINING_DATA, itn, batch, texts,
                 annotations, shuffles, updates, saved>>
  /\ UNCHANGED vars1

\* the batches are exhausted: the iteration ends
EndBatches ==
  /\ AtLoop(3)
  /\ bi = Len(batches)
  /\ itn' = itn + 1
  /\ Goto2(pc2 - 3)
  /\ UNCHANGED <<bound2, kind, labels, setup, TRAINING_DATA, batches, bi, batch,
                 texts, annotations, shuffles, updates, saved>>
  /\ UNCHANGED vars1

\* texts = ...; annotations = ...; nlp.update(texts, annotations)
UpdateBatch ==
  /\ AtLoop(3)
  /\ bi < Len(batches)
  /\ batch' = batches[bi + 1]
  /\ texts' = Texts(batches[bi + 1])
  /\ annotations' = Annotations(batches[bi + 1])
  /\ IF UpdateFails(Annotations(batches[bi + 1]), labels)
     THEN /\ Raise2("KeyError")
          /\ UNCHANGED <<bi, updates>>
     ELSE /\ updates' = updates + 1
          /\ bi' = bi + 1
          /\ Goto2(pc2)
  /\ UNCHANGED <<bound2, kind, labels, setup, TRAINING_DATA, itn, batches,
                 shuffles, saved>>
  /\ UNCHANGED vars1

\* nlp.to_disk(path_to_model): no cell of the notebook binds path_to_model
\* (the load cell binds model_path)
SaveModel ==
  /\ At2("example", 6)
  /\ IF "path_to_model" \in bound2
     THEN /\ saved' = saved + 1
          /\ Finish2
     ELSE /\ Raise2("NameError")
          /\ UNCHANGED saved
  /\ UNCHANGED <<bound2, kind, labels, setup, TRAINING_DATA, itn, batches, bi,
                 batch, texts, annotations, shuffles, updates>>
  /\ UNCHANGED vars1

\* a statement of the executing cell
Step2 ==
  \/ ImportRandom
  \/ BindTrainingData
  \/ BlankModel
  \/ CreatePipe
  \/ AddNer
  \/ AddLabel
  \/ BeginTraining
  \/ LoopHeader
  \/ Shuffle
  \/ CallMinibatch
  \/ EndBatches
  \/ UpdateBatch
  \/ SaveModel

Next2 ==
  \/ LoadCell2
  \/ StartCell2
  \/ ImportRandom
  \/ BindTrainingData
  \/ BlankModel
  \/ CreatePipe
  \/ AddNer
  \/ AddLabel
  \/ BeginTraining
  \/ LoopHeader
  \/ Shuffle
  \/ CallMinibatch
  \/ EndBatches
  \/ UpdateBatch
  \/ SaveModel

Init == Init1 /\ Init2

SpecPipelines == Init /\ [][Next1]_vars

SpecTraining == Init /\ [][Next2]_vars

\* the kernel executes the statements of a cell one after the other until the
\* cell ends
SpecTrainingFair == SpecTraining /\ WF_vars(Step2)

\* ------------------------------------------------- claims about notebook 2

\* an annotation of annots names an entity label that is not in registered
HasUnregistered(annots, registered) ==
  \E k \in 1..Len(annots) : \E e \in 1..Len(annots[k]) :
    ~(annots[k][e][3] \in registered)

\* nlp.update has been called in this execution of the cell
UpdateCalled == updates > 0 \/ err2 = "KeyError"

\* C1: in the example training cell the data is shuffled once per iteration,
\* nlp.update is called once per batch, nlp.to_disk is not called while the
\* loop runs, and when the ten iterations are over without a failed update
\* nlp.to_disk has been called exactly once.
C1_SavedOnceAfterLastUpdate ==
  /\ (cell2 = "example" /\ run2 /\ pc2 <= 5) => saved = 0
  /\ (cell2 = "example" /\ run2 /\ pc2 = 5) =>
       /\ shuffles = itn + 1
       /\ updates = itn * Len(batches) + bi
  /\ (cell2 = "example" /\ ~run2 /\ err2 # "KeyError" /\ itn = Iterations) =>
       /\ shuffles = Iterations
       /\ updates = Iterations * Len(batches)
       /\ saved = 1

\* what holds once an nlp.update call has met an unregistered label
C2_Stopped ==
  /\ (cell2 \in {"example", "scratch"} /\ UpdateCalled
        /\ HasUnregistered(annotations, labels))
       => (err2 = "KeyError" /\ ~run2)
  /\ (cell2 = "example" /\ err2 = "KeyError") =>
       /\ ~run2
       /\ saved = 0
       /\ itn < Iterations
       /\ bi < Len(batches)
       /\ updates = itn * Len(batches) + bi
       /\ HasUnregistered(annotations, labels)

\* after the KeyError nothing changes until a cell is started
C2_NothingAfter ==
  (cell2 = "example" /\ err2 = "KeyError") =>
    \/ err2' = "none"
    \/ UNCHANGED <<updates, saved, itn, bi, shuffles>>

\* C2: an nlp.update call whose annotations name an unregistered entity
\* label ends the cell with KeyError; the example cell then stands where that
\* update was called: the failing batch and the ones after it are not
\* updated, no further iteration runs and nlp.to_disk has not been called.
C2_KeyErrorStopsCell == []C2_Stopped /\ [][C2_NothingAfter]_vars

\* the example cell has failed on the loaded model, which has no GADGET label
C2_Witness ==
  /\ cell2 = "example"
  /\ err2 = "KeyError"
  /\ kind = "loaded"
  /\ Len(TRAINING_DATA) = 3

SetupOrder == <<"blank", "create_pipe", "add_pipe", "add_label", "begin_training">>

\* the entity labels that occur in a list of training examples
EntityLabels(examples) ==
  UNION { {examples[k][2][e][3] : e \in 1..Len(examples[k][2])} :
            k \in 1..Len(examples) }

\* C3: the from-scratch cell makes its calls in the order blank model,
\* create_pipe, add_pipe, add_label, begin_training; when nlp.update is
\* called all five have been made and every entity label of TRAINING_DATA is
\* registered; no update of this cell fails with KeyError.
C3_SetupBeforeUpdate ==
  cell2 = "scratch" =>
    /\ Len(setup) <= Len(SetupOrder)
    /\ setup = SubSeq(SetupOrder, 1, Len(setup))
    /\ err2 # "KeyError"
    /\ (UpdateCalled \/ (run2 /\ pc2 > 5)) =>
         /\ setup = SetupOrder
         /\ EntityLabels(TRAINING_DATA) \subseteq labels
    /\ UpdateCalled => ~HasUnregistered(annotations, labels)

\* the from-scratch cell has updated on a batch that is annotated with GADGET
C3_Witness ==
  /\ cell2 = "scratch"
  /\ updates > 0
  /\ "GADGET" \in EntityLabels(batch)

RECURSIVE Flatten(_)
Flatten(seqs) == IF seqs = <<>> THEN <<>> ELSE Head(seqs) \o Flatten(Tail(seqs))

\* C8: in an iteration of the from-scratch loop the batches, one after the
\* other, are the shuffled TRAINING_DATA, each batch holds one or two
\* examples, and the texts and annotations passed to nlp.update are, position
\* by position, the texts and annotations of the examples of the batch.
C8_BatchesPartition ==
  /\ At2("scratch", 8) =>
       /\ Flatten(batches) = TRAINING_DATA
       /\ \A b \in 1..Len(batches) :
            Len(batches[b]) >= 1 /\ Len(batches[b]) <= ScratchBatchSize
       /\ bi > 0 =>
            /\ batch = batches[bi]
            /\ \A k \in 1..Len(texts) :
                 TRAINING_DATA[ScratchBatchSize * (bi - 1) + k]
                   = <<texts[k], annotations[k]>>
  /\ (cell2 = "scratch" /\ updates > 0) =>
       /\ Len(texts) = Len(batch)
       /\ Len(annotations) = Len(batch)
       /\ \A k \in 1..Len(batch) : batch[k] = <<texts[k], annotations[k]>>

\* three examples, two of them different in one batch, the third alone in
\* the last batch, which has been updated
C8_Witness ==
  /\ At2("scratch", 8)
  /\ Len(TRAINING_DATA) = 3
  /\ TRAINING_DATA[1] # TRAINING_DATA[2]
  /\ Len(batches) = 2
  /\ bi = 2

BagOf(items) ==
  [x \in {items[k] : k \in 1..Len(items)} |->
     Cardinality({k \in 1..Len(items) : items[k] = x})]

C9_Counts ==
  (cell2 = "scratch" /\ ~run2 /\ setup = SetupOrder /\ "TRAINING_DATA" \in bound2) =>
    /\ err2 = "none"
    /\ itn = 10
    /\ shuffles = 10
    /\ updates = 10 * ((Len(TRAINING_DATA) + 1) \div 2)

C9_SameExamples ==
  (cell2 = "scratch" /\ cell2' = "scratch") =>
    BagOf(TRAINING_DATA') = BagOf(TRAINING_DATA)

\* C9: the from-scratch cell, once started, ends; when its loop was reached
\* with TRAINING_DATA bound it ends after exactly 10 iterations and
\* 10 * ceil(n / 2) nlp.update calls; no step of the cell changes which
\* examples TRAINING_DATA holds or how often.
C9_LoopTerminates ==
  /\ []C9_Counts
  /\ [][C9_SameExamples]_vars
  /\ (cell2 = "scratch" /\ run2) ~> (cell2 = "scratch" /\ ~run2)

\* the from-scratch cell has ended after training on three examples, one
\* of them twice in the list
C9_Witness ==
  /\ cell2 = "scratch"
  /\ ~run2
  /\ err2 = "none"
  /\ Len(TRAINING_DATA) = 3
  /\ Cardinality({TRAINING_DATA[k] : k \in 1..3}) = 2
  /\ updates = 20

====
